---- MODULE Spec2Model ----
(***************************************************************************)
(* Model of resources/turntable_render.py: the turntable preview renderer. *)
(*                                                                         *)
(* Lengths are integers in hundredths of a scene unit (0.1 is 10, 0.01 is  *)
(* 1).  A bounding box is kept along one axis, as the interval lo..hi of   *)
(* the object's world-space corners; its diagonal length is hi - lo and    *)
(* its centre is kept doubled (lo + hi) so that it stays an integer.       *)
(* A Vector is the 1-tuple <<x>>, Python's None vector is <<>>.            *)
(* An object reference is the object's position in the scene enumeration  *)
(* (bpy.context.scene.objects); the None reference is 0.  All objects of   *)
(* the file are linked into the one scene, so bpy.data.objects and         *)
(* scene.objects hold the same objects.                                    *)
(***************************************************************************)
EXTENDS Integers, Sequences, FiniteSets, TLC

VARIABLES
    pc,                 \* position in render_turntable
    blend_file,         \* the scene stored in the .blend file (input)
    frame_count,        \* argv[2] (input)
    objects,            \* bpy.context.scene.objects, in enumeration order
    featured_objects,   \* list of (obj, center, size) entries
    num_objects,
    frames_per_object,
    frame_index,
    obj_index,          \* 1-based position in featured_objects
    i,                  \* inner loop variable
    pivot,              \* CameraPivot: location and rotation_euler
    camera,             \* TurntableCamera: parent and distance
    filepath,           \* scene.render.filepath
    files,              \* frame files written into output_dir
    attempts,           \* history: one record per bpy.ops.render.render call
    max_count,          \* argument of get_largest_objects (survey runs)
    calls               \* number of setup_lighting calls made (rig runs)

vars == <<pc, blend_file, frame_count, objects, featured_objects, num_objects,
          frames_per_object, frame_index, obj_index, i, pivot, camera,
          filepath, files, attempts, max_count, calls>>

----------------------------------------------------------------------------
(* Bounds of the model. *)

MaxFrames == 7
MaxMeshes == 6
MaxSceneLen == 4
MaxCount == 3
MaxCalls == 3

(* Program constants. *)

MAX_FEATURED_OBJECTS == 5
SizeFloor == 10
TinySize == 1
Inf == 1000000
NaN == 2000000
DefaultSceneSize == 100

None == 0
NoVector == <<>>
Vector(x) == <<x>>

Min(a, b) == IF a <= b THEN a ELSE b
Max(a, b) == IF a >= b THEN a ELSE b

----------------------------------------------------------------------------
(* Objects of the scene graph. *)

NewObject(name, type, data) ==
    [name |-> name, type |-> type, data |-> data,
     hide_render |-> FALSE, hide_viewport |-> FALSE,
     lo |-> 0, hi |-> 0, vertices |-> 0, faulty |-> FALSE]

\* The name a new datablock gets: the requested one, or the first free
\* numbered variant (.001, .002, ...) when it is taken.
UniqueName(objs, base) ==
    LET taken == {objs[k].name[2] : k \in {j \in 1..Len(objs) : objs[j].name[1] = base}}
    IN  <<base, CHOOSE n \in 0..Len(objs) : n \notin taken /\ \A m \in 0..(n-1) : m \in taken>>

\* bpy.data.objects.get(name): the object of that exact name, or None.
GetObject(objs, base) ==
    LET hits == {k \in 1..Len(objs) : objs[k].name = <<base, 0>>}
    IN  IF hits = {} THEN None ELSE CHOOSE k \in hits : TRUE

----------------------------------------------------------------------------
(* Geometry survey. *)

get_object_bounds(obj) ==
    IF obj.type # "MESH" THEN [center |-> NoVector, size |-> 0]
    ELSE IF obj.vertices = 0 THEN [center |-> NoVector, size |-> 0]
    ELSE IF obj.faulty THEN [center |-> NoVector, size |-> 0]
    ELSE [center |-> Vector(obj.lo + obj.hi), size |-> Max(obj.hi - obj.lo, SizeFloor)]

\* The loop of get_largest_objects over objects k..Len(objs).
RECURSIVE CollectFrom(_, _)
CollectFrom(objs, k) ==
    IF k > Len(objs) THEN <<>>
    ELSE LET b == get_object_bounds(objs[k])
         IN  IF objs[k].type = "MESH" /\ b.center # NoVector /\ b.size > TinySize
             THEN <<[obj |-> k, center |-> b.center, size |-> b.size]>> \o CollectFrom(objs, k + 1)
             ELSE CollectFrom(objs, k + 1)

\* Variant: an entry is put before the entries of its own size.
InsertUnstable(sorted, e) ==
    LET before == {k \in 1..Len(sorted) : sorted[k].size > e.size}
        n == Cardinality(before)
    IN  SubSeq(sorted, 1, n) \o <<e>> \o SubSeq(sorted, n + 1, Len(sorted))

\* Inserting entry e into a list sorted by size descending, after every
\* entry that does not sort after it (list.sort is stable, also with
\* reverse=True).
InsertSorted(sorted, e) ==
    LET before == {k \in 1..Len(sorted) : sorted[k].size >= e.size}
        n == Cardinality(before)
    IN  SubSeq(sorted, 1, n) \o <<e>> \o SubSeq(sorted, n + 1, Len(sorted))

RECURSIVE SortBySize(_)
SortBySize(s) ==
    IF s = <<>> THEN <<>>
    ELSE InsertSorted(SortBySize(SubSeq(s, 1, Len(s) - 1)), s[Len(s)])

get_largest_objects(objs, m) ==
    LET objects_with_size == SortBySize(CollectFrom(objs, 1))
    IN  SubSeq(objects_with_size, 1, Min(m, Len(objects_with_size)))

\* The fold of get_scene_bounds: <<min_co, max_co>> after objects k..Len.
RECURSIVE FoldBounds(_, _, _)
FoldBounds(objs, k, acc) ==
    IF k > Len(objs) THEN acc
    ELSE IF objs[k].type = "MESH" /\ ~objs[k].faulty
         THEN FoldBounds(objs, k + 1, <<Min(acc[1], objs[k].lo), Max(acc[2], objs[k].hi)>>)
         ELSE FoldBounds(objs, k + 1, acc)

get_scene_bounds(objs) ==
    LET has_objects == \E k \in 1..Len(objs) : objs[k].type = "MESH"
        acc == FoldBounds(objs, 1, <<Inf, -Inf>>)
    IN  IF ~has_objects THEN [center |-> Vector(0), size |-> DefaultSceneSize]
        ELSE IF acc[1] = Inf THEN [center |-> Vector(NaN), size |-> Inf]
        ELSE [center |-> Vector(acc[1] + acc[2]), size |-> Max(acc[2] - acc[1], SizeFloor)]

----------------------------------------------------------------------------
(* Rig builder. *)

Link(objs, base, type, data) == Append(objs, NewObject(UniqueName(objs, base), type, data))

create_camera(objs) == Link(objs, "TurntableCamera", "CAMERA", "CAMERA")
create_sun_light(objs) == Link(objs, "TurntableSun", "LIGHT", "SUN")
create_area_light(objs) == Link(objs, "TurntableFill", "LIGHT", "AREA")
create_empty(objs) == Link(objs, "CameraPivot", "EMPTY", "NONE")

\* distance = size * 2.5
Distance(size) == IF size = Inf THEN Inf ELSE (size * 5) \div 2

\* The scene after setup_lighting(size).
setup_lighting(objs, size) ==
    IF GetObject(objs, "TurntableSun") # None THEN objs
    ELSE create_area_light(create_sun_light(objs))

\* setup_camera(center, size) with cam the state of the camera object so far:
\* the scene afterwards and the camera returned.  An existing camera keeps
\* its placement.
setup_camera(objs, size, cam) ==
    IF GetObject(objs, "TurntableCamera") = None
    THEN [objs |-> create_camera(objs),
          camera |-> [obj |-> Len(objs) + 1, parent |-> None, distance |-> Distance(size)]]
    ELSE [objs |-> objs,
          camera |-> [cam EXCEPT !.obj = GetObject(objs, "TurntableCamera")]]

ZeroAngle == <<0, 1>>

\* setup_pivot(center): the scene afterwards and the pivot returned.
setup_pivot(objs, center) ==
    IF GetObject(objs, "CameraPivot") = None
    THEN [objs |-> create_empty(objs),
          pivot |-> [obj |-> Len(objs) + 1, location |-> center,
                     rotation_euler |-> <<ZeroAngle, ZeroAngle, ZeroAngle>>]]
    ELSE [objs |-> objs,
          pivot |-> [obj |-> GetObject(objs, "CameraPivot"), location |-> center,
                     rotation_euler |-> <<ZeroAngle, ZeroAngle, ZeroAngle>>]]

\* Variant: the rotation steps counted from 1.
AngleOneBased(ii, fpo) == <<2 * (ii + 1), fpo>>

\* angle = (2 * pi * i) / frames_per_object, kept as the fraction <<2i, fpo>> of pi.
Angle(ii, fpo) == <<2 * ii, fpo>>

----------------------------------------------------------------------------
(* Visibility. *)

\* Variant: the current mesh is shown, the other meshes are left as they are.
ShowOnly(objs, current_obj) ==
    [k \in 1..Len(objs) |->
        IF objs[k].type = "MESH"
        THEN [objs[k] EXCEPT !.hide_render = @ /\ (k # current_obj),
                             !.hide_viewport = @ /\ (k # current_obj)]
        ELSE IF objs[k].type \in {"CAMERA", "LIGHT", "EMPTY"}
        THEN [objs[k] EXCEPT !.hide_render = FALSE, !.hide_viewport = FALSE]
        ELSE objs[k]]

set_object_visibility(objs, current_obj) ==
    [k \in 1..Len(objs) |->
        IF objs[k].type = "MESH"
        THEN [objs[k] EXCEPT !.hide_render = (k # current_obj),
                             !.hide_viewport = (k # current_obj)]
        ELSE IF objs[k].type \in {"CAMERA", "LIGHT", "EMPTY"}
        THEN [objs[k] EXCEPT !.hide_render = FALSE, !.hide_viewport = FALSE]
        ELSE objs[k]]

\* Variant: set_object_visibility is called for the None entry too.
IsolateAlways(objs, obj) == set_object_visibility(objs, obj)

\* Lines 298-300 of the object loop: isolate only a real object.
Isolate(objs, obj) == IF obj # None THEN set_object_visibility(objs, obj) ELSE objs

\* Variant: only the meshes are shown again.
RestoreMeshesOnly(objs) ==
    [k \in 1..Len(objs) |->
        IF objs[k].type = "MESH"
        THEN [objs[k] EXCEPT !.hide_render = FALSE, !.hide_viewport = FALSE]
        ELSE objs[k]]

restore_visibility(objs) ==
    [k \in 1..Len(objs) |-> [objs[k] EXCEPT !.hide_render = FALSE, !.hide_viewport = FALSE]]

----------------------------------------------------------------------------
(* Render settings: the output path f"frame_{frame:03d}.png". *)

DigitChar == <<"0", "1", "2", "3", "4", "5", "6", "7", "8", "9">>

RECURSIVE Decimal(_)
Decimal(n) ==
    IF n < 10 THEN <<DigitChar[n + 1]>>
    ELSE Decimal(n \div 10) \o <<DigitChar[(n % 10) + 1]>>

RECURSIVE ZeroPad3(_)
ZeroPad3(s) == IF Len(s) >= 3 THEN s ELSE ZeroPad3(<<"0">> \o s)

FramePath(frame) == <<"frame_">> \o ZeroPad3(Decimal(frame)) \o <<".png">>

\* Variant: the increment inside the try block, skipped when render raises.
AdvanceOnSuccess(fi, ok) == IF ok THEN fi + 1 ELSE fi

\* frame_index += 1, outside the try block.
AdvanceFrameIndex(fi, ok) == fi + 1

\* Variant: a render that raises ends the loops.
AfterRenderAbortOnFailure(ok, fi, ii, fpo, fc) ==
    IF ~ok THEN "restore"
    ELSE IF fi >= fc THEN "restore"
    ELSE IF ii + 1 < fpo THEN "frame"
    ELSE "object"

\* Where control goes after a render call: the two budget checks and the
\* end of range(frames_per_object).
AfterRender(ok, fi, ii, fpo, fc) ==
    IF fi >= fc THEN "restore"
    ELSE IF ii + 1 < fpo THEN "frame"
    ELSE "object"

----------------------------------------------------------------------------
(* Scenes the runs start from. *)

Obj(name, type, lo, hi, vertices, faulty, hr, hv) ==
    [name |-> name, type |-> type, data |-> type,
     hide_render |-> hr, hide_viewport |-> hv,
     lo |-> lo, hi |-> hi, vertices |-> vertices, faulty |-> faulty]

\* Mesh sizes repeat with period 3, so equal sizes occur: 2.0, 3.0, 1.0, 2.0, ...
MeshExtent(k) == 100 * (1 + (k % 3))

\* Objects that never qualify for the survey: a mesh without vertices, a mesh
\* whose bounds fault, and one object of each other type.
Props(hid) ==
    << Obj(<<"NoVerts", 0>>, "MESH", -100, 100, 0, FALSE, hid, FALSE),
       Obj(<<"Broken", 0>>, "MESH", 0, 50, 8, TRUE, FALSE, hid),
       Obj(<<"Camera", 0>>, "CAMERA", 0, 0, 0, FALSE, hid, hid),
       Obj(<<"Light", 0>>, "LIGHT", 0, 0, 0, FALSE, hid, hid),
       Obj(<<"Empty", 0>>, "EMPTY", 0, 0, 0, FALSE, hid, hid),
       Obj(<<"Curve", 0>>, "CURVE", 0, 40, 0, FALSE, hid, hid) >>

\* A single-point mesh: its bounds are degenerate.
Point(hid) == << Obj(<<"Point", 0>>, "MESH", 30, 30, 1, FALSE, hid, hid) >>

Meshes(n, hid) ==
    [k \in 1..n |-> Obj(<<"Mesh", k>>, "MESH", 10 * k, 10 * k + MeshExtent(k), 8, FALSE,
                        hid /\ (k % 2 = 1), hid /\ (k % 3 # 0))]

ExtraKinds == {"none", "props", "point"}

Scene(n, extras, hid) ==
    (IF extras = "none" THEN <<>>
     ELSE IF extras = "props" THEN Props(hid)
     ELSE Props(hid) \o Point(hid)) \o Meshes(n, hid)

NoPivot == [obj |-> None, location |-> NoVector, rotation_euler |-> <<ZeroAngle, ZeroAngle, ZeroAngle>>]
NoCamera == [obj |-> None, parent |-> None, distance |-> 0]

\* Everything of a run that is not an input.
Fresh ==
    /\ featured_objects = <<>>
    /\ num_objects = 0
    /\ frames_per_object = 0
    /\ frame_index = 0
    /\ obj_index = 0
    /\ i = 0
    /\ pivot = NoPivot
    /\ camera = NoCamera
    /\ filepath = <<>>
    /\ files = {}
    /\ attempts = <<>>

Init ==
    /\ pc = "open"
    /\ \E n \in 0..MaxMeshes, extras \in ExtraKinds, hid \in BOOLEAN :
          blend_file = Scene(n, extras, hid)
    /\ frame_count \in 0..MaxFrames
    /\ objects = <<>>
    /\ Fresh
    /\ max_count = MAX_FEATURED_OBJECTS
    /\ calls = 0

----------------------------------------------------------------------------
(* render_turntable, step by step. *)

\* bpy.ops.wm.open_mainfile succeeds.
OpenOk ==
    /\ pc = "open"
    /\ pc' = "survey"
    /\ objects' = blend_file
    /\ UNCHANGED <<blend_file, frame_count, featured_objects, num_objects,
                   frames_per_object, frame_index, obj_index, i, pivot, camera,
                   filepath, files, attempts, max_count, calls>>

\* bpy.ops.wm.open_mainfile raises: return False.
OpenFail ==
    /\ pc = "open"
    /\ pc' = "failed"
    /\ UNCHANGED <<blend_file, frame_count, objects, featured_objects, num_objects,
                   frames_per_object, frame_index, obj_index, i, pivot, camera,
                   filepath, files, attempts, max_count, calls>>

\* The list handed to the frame loop: the survey, or the whole-scene entry.
FeaturedOrScene(objs) ==
    LET found == get_largest_objects(objs, MAX_FEATURED_OBJECTS)
        b == get_scene_bounds(objs)
    IN  IF found = <<>> THEN <<[obj |-> None, center |-> b.center, size |-> b.size]>>
        ELSE found

\* Lines 266-276: the survey, its fallback and the frame budget per object.
Survey ==
    /\ pc = "survey"
    /\ pc' = "rig"
    /\ featured_objects' = FeaturedOrScene(objects)
    /\ num_objects' = Len(featured_objects')
    /\ frames_per_object' = Max(1, frame_count \div num_objects')
    /\ UNCHANGED <<blend_file, frame_count, objects, frame_index, obj_index, i,
                   pivot, camera, filepath, files, attempts, max_count, calls>>

\* Lines 280-291: lights, camera, pivot, output directory, frame_index = 0.
SetupRig ==
    /\ pc = "rig"
    /\ pc' = "object"
    /\ LET largest_size == featured_objects[1].size
           lit == setup_lighting(objects, largest_size)
           cam == setup_camera(lit, largest_size, camera)
           piv == setup_pivot(cam.objs, Vector(0))
       IN  /\ objects' = piv.objs
           /\ camera' = cam.camera
           /\ pivot' = piv.pivot
    /\ frame_index' = 0
    /\ obj_index' = 1
    /\ UNCHANGED <<blend_file, frame_count, featured_objects, num_objects,
                   frames_per_object, i, filepath, files, attempts, max_count, calls>>

\* Lines 294-303: the next featured object is isolated and framed.
NextObject ==
    /\ pc = "object"
    /\ obj_index <= num_objects
    /\ pc' = "frame"
    /\ LET e == featured_objects[obj_index]
       IN  /\ objects' = Isolate(objects, e.obj)
           /\ pivot' = [pivot EXCEPT !.location = e.center]
           /\ camera' = [camera EXCEPT !.parent = pivot.obj, !.distance = Distance(e.size)]
    /\ i' = 0
    /\ UNCHANGED <<blend_file, frame_count, featured_objects, num_objects,
                   frames_per_object, frame_index, obj_index, filepath, files,
                   attempts, max_count, calls>>

\* The outer loop ends because every featured object was processed.
ObjectsExhausted ==
    /\ pc = "object"
    /\ obj_index > num_objects
    /\ pc' = "restore"
    /\ UNCHANGED <<blend_file, frame_count, objects, featured_objects, num_objects,
                   frames_per_object, frame_index, obj_index, i, pivot, camera,
                   filepath, files, attempts, max_count, calls>>

\* Lines 307-312: rotate the pivot, configure the output of this frame.
SetupFrame ==
    /\ pc = "frame"
    /\ pc' = "render"
    /\ pivot' = [pivot EXCEPT !.rotation_euler = <<ZeroAngle, ZeroAngle, Angle(i, frames_per_object)>>]
    /\ filepath' = FramePath(frame_index)
    /\ UNCHANGED <<blend_file, frame_count, objects, featured_objects, num_objects,
                   frames_per_object, frame_index, obj_index, i, camera, files,
                   attempts, max_count, calls>>

\* Lines 315-328: one render call and what follows it.
Render(ok) ==
    /\ pc = "render"
    /\ attempts' = Append(attempts,
          [obj_index |-> obj_index, obj |-> featured_objects[obj_index].obj, i |-> i,
           frame |-> frame_index, rotation_euler |-> pivot.rotation_euler,
           filepath |-> filepath, ok |-> ok])
    /\ files' = IF ok THEN files \cup {filepath} ELSE files
    /\ frame_index' = AdvanceFrameIndex(frame_index, ok)
    /\ pc' = AfterRender(ok, frame_index', i, frames_per_object, frame_count)
    /\ i' = IF pc' = "frame" THEN i + 1 ELSE i
    /\ obj_index' = IF pc' = "object" THEN obj_index + 1 ELSE obj_index
    /\ UNCHANGED <<blend_file, frame_count, objects, featured_objects, num_objects,
                   frames_per_object, pivot, camera, filepath, max_count, calls>>

\* bpy.ops.render.render returns: the frame file is written.
RenderOk ==
    /\ pc = "render"
    /\ Render(TRUE)

\* bpy.ops.render.render raises: the exception is caught and printed.
RenderFail ==
    /\ pc = "render"
    /\ Render(FALSE)

\* Lines 330-334: restore visibility, return True.
RestoreVisibility ==
    /\ pc = "restore"
    /\ pc' = "done"
    /\ objects' = restore_visibility(objects)
    /\ UNCHANGED <<blend_file, frame_count, featured_objects, num_objects,
                   frames_per_object, frame_index, obj_index, i, pivot, camera,
                   filepath, files, attempts, max_count, calls>>

Next ==
    \/ OpenOk
    \/ OpenFail
    \/ Survey
    \/ SetupRig
    \/ NextObject
    \/ ObjectsExhausted
    \/ SetupFrame
    \/ RenderOk
    \/ RenderFail
    \/ RestoreVisibility

Spec == Init /\ [][Next]_vars

----------------------------------------------------------------------------
(* get_largest_objects on its own: any short scene, any cap. *)

Templates == {"small", "mid", "large", "point", "noverts", "broken", "light"}

FromTemplate(t, k) ==
    CASE t = "small"   -> Obj(<<"Object", k>>, "MESH", 0, 50, 8, FALSE, FALSE, FALSE)
      [] t = "mid"     -> Obj(<<"Object", k>>, "MESH", -100, 100, 8, FALSE, FALSE, FALSE)
      [] t = "large"   -> Obj(<<"Object", k>>, "MESH", 100, 400, 8, FALSE, FALSE, FALSE)
      [] t = "point"   -> Obj(<<"Object", k>>, "MESH", 30, 30, 1, FALSE, FALSE, FALSE)
      [] t = "noverts" -> Obj(<<"Object", k>>, "MESH", -100, 100, 0, FALSE, FALSE, FALSE)
      [] t = "broken"  -> Obj(<<"Object", k>>, "MESH", 0, 900, 8, TRUE, FALSE, FALSE)
      [] t = "light"   -> Obj(<<"Object", k>>, "LIGHT", 0, 0, 0, FALSE, FALSE, FALSE)

SurveyInit ==
    /\ pc = "call"
    /\ \E n \in 0..MaxSceneLen : \E f \in [1..n -> Templates] :
          blend_file = [k \in 1..n |-> FromTemplate(f[k], k)]
    /\ objects = blend_file
    /\ max_count \in 0..MaxCount
    /\ frame_count = 0
    /\ Fresh
    /\ calls = 0

CallGetLargestObjects ==
    /\ pc = "call"
    /\ pc' = "returned"
    /\ featured_objects' = get_largest_objects(objects, max_count)
    /\ UNCHANGED <<blend_file, frame_count, objects, num_objects, frames_per_object,
                   frame_index, obj_index, i, pivot, camera, filepath, files,
                   attempts, max_count, calls>>

SurveyNext == CallGetLargestObjects

SpecSurvey == SurveyInit /\ [][SurveyNext]_vars

----------------------------------------------------------------------------
(* The rig builder on its own: the setup functions called again and again on *)
(* a scene that may already hold objects of the reserved light names.        *)

Reserved(sun, fill) ==
    (IF sun THEN <<Obj(<<"TurntableSun", 0>>, "LIGHT", 0, 0, 0, FALSE, FALSE, FALSE)>> ELSE <<>>)
    \o (IF fill THEN <<Obj(<<"TurntableFill", 0>>, "LIGHT", 0, 0, 0, FALSE, FALSE, FALSE)>> ELSE <<>>)

RigSizes == {10, 100, 300}

RigInit ==
    /\ pc = "rig"
    /\ \E n \in 0..MaxMeshes, sun \in BOOLEAN, fill \in BOOLEAN :
          blend_file = Meshes(n, FALSE) \o Reserved(sun, fill)
    /\ objects = blend_file
    /\ frame_count = 0
    /\ Fresh
    /\ max_count = MAX_FEATURED_OBJECTS
    /\ calls = 0

CallSetupLighting ==
    /\ pc = "rig"
    /\ calls < MaxCalls
    /\ \E size \in RigSizes : objects' = setup_lighting(objects, size)
    /\ calls' = calls + 1
    /\ UNCHANGED <<pc, blend_file, frame_count, featured_objects, num_objects,
                   frames_per_object, frame_index, obj_index, i, pivot, camera,
                   filepath, files, attempts, max_count>>

CallSetupCamera ==
    /\ pc = "rig"
    /\ \E size \in RigSizes :
          LET cam == setup_camera(objects, size, camera)
          IN  /\ objects' = cam.objs
              /\ camera' = cam.camera
    /\ calls' = calls
    /\ UNCHANGED <<pc, blend_file, frame_count, featured_objects, num_objects,
                   frames_per_object, frame_index, obj_index, i, pivot,
                   filepath, files, attempts, max_count>>

CallSetupPivot ==
    /\ pc = "rig"
    /\ \E c \in {0, 50} :
          LET piv == setup_pivot(objects, Vector(c))
          IN  /\ objects' = piv.objs
              /\ pivot' = piv.pivot
    /\ calls' = calls
    /\ UNCHANGED <<pc, blend_file, frame_count, featured_objects, num_objects,
                   frames_per_object, frame_index, obj_index, i, camera,
                   filepath, files, attempts, max_count>>

RigNext ==
    \/ CallSetupLighting
    \/ CallSetupCamera
    \/ CallSetupPivot

SpecRig == RigInit /\ [][RigNext]_vars

----------------------------------------------------------------------------
(* Properties. *)

Started == pc \in {"rig", "object", "frame", "render", "restore", "done"}
Finished == pc \in {"restore", "done"}
Hidden(o) == o.hide_render \/ o.hide_viewport
Visible(o) == ~o.hide_render /\ ~o.hide_viewport
AttemptsOf(j) == {k \in 1..Len(attempts) : attempts[k].obj_index = j}

\* C1: the global frame index never exceeds the requested frame_count, in
\* any state of a run, for every frame_count >= 0.
FrameIndexWithinBudget == frame_index <= frame_count

\* C2: a run that completes after a successful load made exactly frame_count
\* render attempts, for every frame_count >= 1.
AllFramesAttempted ==
    (pc = "done" /\ frame_count >= 1) => Len(attempts) = frame_count

\* What a run attempts in total, whichever renders fail.
TotalAttempts == Min(frames_per_object * num_objects, Max(frame_count, 1))

\* C3: a failed render does not abort the run: the attempted (object, step,
\* frame index) triples and the final frame index are fixed by frame_count
\* and the featured list alone, whichever render calls fail.
AttemptsIgnoreFailures ==
    /\ \A k \in 1..Len(attempts) :
          /\ attempts[k].frame = k - 1
          /\ attempts[k].obj_index = ((k - 1) \div frames_per_object) + 1
          /\ attempts[k].i = (k - 1) % frames_per_object
          /\ attempts[k].obj = featured_objects[attempts[k].obj_index].obj
    /\ pc \in {"frame", "render"} => Len(attempts) < TotalAttempts
    /\ Finished => Len(attempts) = TotalAttempts /\ frame_index = TotalAttempts

AllFailedRun ==
    /\ pc = "done"
    /\ num_objects >= 2
    /\ Len(attempts) >= 4
    /\ \A k \in 1..Len(attempts) : ~attempts[k].ok

\* C4: every attempt renders to frame_<index> of the current frame index,
\* the index grows by one per attempt, failed or not, so no path is used
\* twice, and the files written are exactly those of the successful attempts.
FrameFilesMatchSuccesses ==
    /\ frame_index = Len(attempts)
    /\ \A k \in 1..Len(attempts) :
          /\ attempts[k].frame = k - 1
          /\ attempts[k].filepath = FramePath(k - 1)
    /\ \A k, m \in 1..Len(attempts) :
          k # m => attempts[k].filepath # attempts[m].filepath
    /\ files = {attempts[k].filepath : k \in {j \in 1..Len(attempts) : attempts[j].ok}}
    /\ pc = "render" => filepath = FramePath(frame_index) /\ filepath \notin files

FailureThenSuccess ==
    /\ pc = "done"
    /\ \E k, m \in 1..Len(attempts) : k < m /\ ~attempts[k].ok /\ attempts[m].ok
    /\ Cardinality(files) < Len(attempts)
    /\ Cardinality(files) >= 2

\* C5: after a completed run every object of the scene is visible for render
\* and viewport.
AllVisibleAfterRun ==
    pc = "done" => \A k \in 1..Len(objects) : Visible(objects[k])

HiddenThenRestored ==
    /\ pc = "done"
    /\ num_objects >= 2
    /\ \E k \in 1..Len(blend_file) : blend_file[k].type = "CURVE" /\ Hidden(blend_file[k])
    /\ \E k \in 1..Len(attempts) : ~attempts[k].ok
    /\ frame_index < frame_count

\* C6: at every render attempt for featured object X every other mesh is
\* hidden for render and viewport, X is visible, and every camera, light and
\* empty, the rig's included, is visible.
IsolationAtRender ==
    (pc = "render" /\ featured_objects[obj_index].obj # None) =>
        LET x == featured_objects[obj_index].obj
        IN  /\ \A k \in 1..Len(objects) :
                  /\ (objects[k].type = "MESH" /\ k # x) =>
                        (objects[k].hide_render /\ objects[k].hide_viewport)
                  /\ objects[k].type \in {"CAMERA", "LIGHT", "EMPTY"} => Visible(objects[k])
            /\ x \in 1..Len(objects) /\ objects[x].type = "MESH" /\ Visible(objects[x])
            /\ \A r \in {camera.obj, pivot.obj, GetObject(objects, "TurntableSun"),
                         GetObject(objects, "TurntableFill")} :
                  r \in 1..Len(objects) /\ Visible(objects[r])

LaterObjectIsolated ==
    /\ pc = "render"
    /\ obj_index >= 2
    /\ featured_objects[obj_index].obj # None
    /\ Hidden(blend_file[featured_objects[obj_index].obj])
    /\ \E k \in 1..Len(blend_file) : blend_file[k].type = "LIGHT" /\ Hidden(blend_file[k])

\* C7: a processed featured object that received k frames was rendered at
\* the pivot rotations (0, 0, 2*pi*n/k) for n = 0, ..., k-1, in that order.
EvenRotationSteps ==
    \A j \in 1..num_objects :
        (Started /\ (obj_index > j \/ Finished)) =>
            LET mine == AttemptsOf(j)
                count == Cardinality(mine)
            IN  \A k \in mine :
                    LET n == Cardinality({m \in mine : m < k})
                        rot == attempts[k].rotation_euler
                    IN  /\ rot[1] = ZeroAngle /\ rot[2] = ZeroAngle
                        /\ rot[3][2] > 0
                        /\ rot[3][1] * count = 2 * n * rot[3][2]

FullTurnRendered ==
    /\ pc = "done"
    /\ num_objects >= 2
    /\ Cardinality(AttemptsOf(2)) >= 3

Qualifying(objs) ==
    {k \in 1..Len(objs) : objs[k].type = "MESH" /\ objs[k].vertices > 0 /\ ~objs[k].faulty}

SizeOf(o) == IF o.hi - o.lo < 10 THEN 10 ELSE o.hi - o.lo

FeaturedNeverEmpty ==
    /\ Started =>
          /\ num_objects = Len(featured_objects)
          /\ num_objects >= 1
          /\ Qualifying(blend_file) = {} =>
                (num_objects = 1 /\ featured_objects[1].obj = None)
          /\ Qualifying(blend_file) # {} =>
                \A a \in 1..num_objects : featured_objects[a].obj # None
    /\ (pc = "render" /\ featured_objects[obj_index].obj = None) =>
          \A k \in 1..Len(blend_file) : objects[k] = blend_file[k]

WholeSceneRendered ==
    /\ pc = "render"
    /\ featured_objects[obj_index].obj = None
    /\ \E k \in 1..Len(blend_file) : blend_file[k].type = "MESH" /\ ~blend_file[k].hide_render
    /\ \E k \in 1..Len(blend_file) : blend_file[k].type = "MESH" /\ blend_file[k].hide_render

Named(objs, base) == {k \in 1..Len(objs) : objs[k].name[1] = base}

\* C10: after any number of setup_lighting calls, whichever reserved lights
\* the scene held before, it holds exactly one sun and one fill light of
\* the rig.
OneSunOneFill ==
    (pc = "rig" /\ calls >= 1) =>
        /\ Cardinality(Named(objects, "TurntableSun")) = 1
        /\ Cardinality(Named(objects, "TurntableFill")) = 1

====
